---- MODULE Spec2Model ----
(***************************************************************************)
(* Model of custom_components/mypyllant/sensor.py: the two factory         *)
(* functions that turn the coordinators' cached data into sensor entities, *)
(* async_setup_entry, and the sensors' property accessors.                 *)
(*                                                                         *)
(* Conventions.  A Python value that may be None is None (the empty tuple) *)
(* or Some(v) (a one-element tuple).  Temperatures, pressures and energy   *)
(* values are integers in 1/100 of their unit, the heating curve in 1/1000,*)
(* so that round(x, 1) and round(x, 2) both drop the last digit.  Sensor   *)
(* indexes are 0-based as in Python; TLA+ sequences are 1-based, so        *)
(* list[i] is seq[i + 1].  A property evaluation yields Return(v) or       *)
(* Raise(e).                                                               *)
(***************************************************************************)
EXTENDS Integers, Sequences, FiniteSets, TLC

VARIABLES
    system_data,        \* system_coordinator.data: None or Some(list of systems)
    daily_data,         \* daily_data_coordinator.data: None or Some(dict as list of items)
    added_entities,     \* the lists passed to async_add_entities, in call order
    system_states,      \* native_value last written for each system sensor
    daily_states,       \* what each daily sensor's last state write evaluated
    created_from,       \* history: the coordinator data the sensors were created from
    last_attributes     \* result of the last extra_state_attributes read

vars == <<system_data, daily_data, added_entities, system_states, daily_states,
          created_from, last_attributes>>

(***************************************************************************)
(* Bounds of the model.                                                    *)
(***************************************************************************)
MaxSystems == 2
MaxItems == 2

(***************************************************************************)
(* Python values.                                                          *)
(***************************************************************************)
None == <<>>
Some(v) == <<v>>
Return(v) == [exc |-> "", value |-> v]
Raise(e) == [exc |-> e, value |-> None]

\* bool(x) of an optional number: None and 0 are falsy
Truthy(o) == o # None /\ o[1] # 0

\* bool(x) of a list or dict held by a coordinator: None and empty are falsy
NonEmpty(d) == d # None /\ Len(d[1]) > 0

\* round(x, n) of a number carrying one digit more than n decimals; Python
\* rounds an exactly representable tie to the even neighbour
round(x) ==
    LET q == x \div 10
        r == x % 10
    IN  IF r < 5 THEN 10 * q
        ELSE IF r > 5 THEN 10 * (q + 1)
        ELSE IF q % 2 = 0 THEN 10 * q ELSE 10 * (q + 1)

\* a | b of two dicts: a new dict, the right operand winning; the left
\* operand object is returned beside it to show what the operator did to it
\* a |= b: the union is stored into the left operand
DictUnion_inplace(a, b) ==
    [result |-> {p \in a : \A q \in b : q[1] # p[1]} \cup b,
     left |-> {p \in a : \A q \in b : q[1] # p[1]} \cup b]

DictUnion(a, b) ==
    [result |-> {p \in a : \A q \in b : q[1] # p[1]} \cup b, left |-> a]

\* a dict is a set of <<key, value>> pairs with distinct keys
HasKey(d, k) == \E p \in d : p[1] = k

\* d.get(k, default)
Get(d, k, default) == IF HasKey(d, k) THEN (CHOOSE p \in d : p[1] = k)[2] ELSE default

RECURSIVE Concat(_)
Concat(ss) == IF ss = <<>> THEN <<>> ELSE Head(ss) \o Concat(Tail(ss))

\* lists of length n over a catalogue, at most one element not the base one
OneOff(base, variants, n) ==
    {[i \in 1..n |-> IF i = k THEN e ELSE base] : k \in 1..n, e \in variants}

Lists(base, variants, max) ==
    {<<>>} \cup UNION {OneOff(base, variants, n) : n \in 1..max}

\* the same, the element that is not the base one being the last
Tails(base, variants, max) ==
    {<<>>} \cup {[i \in 1..n |-> IF i = n THEN e ELSE base] : n \in 1..max, e \in variants}

(***************************************************************************)
(* The API objects the system coordinator caches (myPyllant.models).       *)
(***************************************************************************)
Temperatures == {None, Some(0), Some(2137)}
Pressures == {None, Some(0), Some(152)}

BaseDevice ==
    [device_uuid |-> "uuid-1",
     operational_data |-> {<<"water_pressure", {<<"value", Some(152)>>}>>}]

Devices ==
    {BaseDevice,
     [BaseDevice EXCEPT !.operational_data = {}],
     [BaseDevice EXCEPT !.operational_data = {<<"water_pressure", {}>>}],
     [BaseDevice EXCEPT !.operational_data = {<<"water_pressure", {<<"value", Some(0)>>}>>}],
     [BaseDevice EXCEPT !.operational_data = {<<"water_pressure", {<<"value", None>>}>>}]}

BaseZone ==
    [current_room_temperature |-> Some(2137),
     current_room_humidity |-> Some(45),
     desired_room_temperature_setpoint_heating |-> Some(2100),
     desired_room_temperature_setpoint_cooling |-> Some(2400),
     desired_room_temperature_setpoint |-> Some(2000),
     heating |-> [operation_mode_heating |-> [display_value |-> "Manual"]],
     heating_state |-> [display_value |-> "Idle"],
     current_special_function |-> [display_value |-> "None"],
     is_active |-> TRUE]

Zones ==
    {[BaseZone EXCEPT !.current_room_temperature = t] : t \in Temperatures}
    \cup {[BaseZone EXCEPT !.current_room_humidity = h] : h \in {None, Some(0), Some(45)}}
    \cup {[BaseZone EXCEPT !.desired_room_temperature_setpoint_heating = h,
                           !.desired_room_temperature_setpoint_cooling = c] :
            h \in {None, Some(0), Some(2100)}, c \in {None, Some(0), Some(2400)}}
    \cup {[BaseZone EXCEPT !.heating.operation_mode_heating.display_value = "Time Controlled",
                           !.heating_state.display_value = "Heating Up",
                           !.current_special_function.display_value = "Quick Veto",
                           !.is_active = FALSE]}

BaseCircuit ==
    [current_circuit_flow_temperature |-> Some(3550),
     heating_curve |-> Some(1234),
     min_flow_temperature_setpoint |-> Some(3500),
     circuit_state |-> "HEATING",
     extra_fields |-> {<<"mixer", "open">>}]

Circuits ==
    {[BaseCircuit EXCEPT !.current_circuit_flow_temperature = t] :
        t \in {None, Some(0), Some(3550)}}
    \cup {[BaseCircuit EXCEPT !.heating_curve = c] : c \in {None, Some(0), Some(1234)}}
    \cup {[BaseCircuit EXCEPT !.min_flow_temperature_setpoint = t] :
            t \in {None, Some(0), Some(3500)}}
    \cup {[BaseCircuit EXCEPT !.circuit_state = "STANDBY"]}

BaseDomesticHotWater ==
    [current_dhw_temperature |-> Some(4850),
     tapping_setpoint |-> Some(5000),
     operation_mode_dhw |-> [display_value |-> "Manual"],
     current_special_function |-> [display_value |-> "Regular"]]

DomesticHotWaters ==
    {[BaseDomesticHotWater EXCEPT !.current_dhw_temperature = t] :
        t \in {None, Some(0), Some(4850)}}
    \cup {[BaseDomesticHotWater EXCEPT !.tapping_setpoint = None,
                                       !.operation_mode_dhw.display_value = "Off",
                                       !.current_special_function.display_value = "Cylinder Boost"]}

BaseSystem ==
    [outdoor_temperature |-> Some(2137),
     water_pressure |-> Some(152),
     home |-> [firmware_version |-> "fw1", extra_fields |-> {<<"region", "eu">>}],
     extra_fields |-> {<<"region", "de">>, <<"status", "ok">>},
     devices |-> <<BaseDevice>>,
     zones |-> <<BaseZone>>,
     circuits |-> <<BaseCircuit>>,
     domestic_hot_water |-> <<BaseDomesticHotWater>>]

Systems ==
    {[BaseSystem EXCEPT !.outdoor_temperature = t] : t \in Temperatures}
    \cup {[BaseSystem EXCEPT !.water_pressure = p] : p \in Pressures}
    \cup {[BaseSystem EXCEPT !.home.firmware_version = "fw2"]}
    \cup {[BaseSystem EXCEPT !.devices = l] : l \in Lists(BaseDevice, Devices, MaxItems)}
    \cup {[BaseSystem EXCEPT !.zones = l] : l \in Lists(BaseZone, Zones, MaxItems)}
    \cup {[BaseSystem EXCEPT !.circuits = l] : l \in Lists(BaseCircuit, Circuits, MaxItems)}
    \cup {[BaseSystem EXCEPT !.domestic_hot_water = l] :
            l \in Lists(BaseDomesticHotWater, DomesticHotWaters, MaxItems)}

\* every value system_coordinator.data takes in the model
SystemDataSets == {None} \cup {Some(l) : l \in Lists(BaseSystem, Systems, MaxSystems)}

\* a system with n devices, zones, circuits and hot water units, every
\* optional data point present with its base value
FullSystem(n) ==
    [BaseSystem EXCEPT !.devices = [i \in 1..n |-> BaseDevice],
                       !.zones = [i \in 1..n |-> BaseZone],
                       !.circuits = [i \in 1..n |-> BaseCircuit],
                       !.domestic_hot_water = [i \in 1..n |-> BaseDomesticHotWater]]

\* the data set the sensors of the update runs are created from: it yields
\* every sensor that any data set within the bounds yields
FullSystemData == Some([i \in 1..MaxSystems |-> FullSystem(MaxItems)])

\* the data sets a system coordinator refresh installs in the update runs
UpdateSystems ==
    {[BaseSystem EXCEPT !.outdoor_temperature = t] : t \in Temperatures}
    \cup {[BaseSystem EXCEPT !.water_pressure = p] : p \in Pressures}
    \cup {[BaseSystem EXCEPT !.home.firmware_version = "fw2"]}
    \cup {[BaseSystem EXCEPT !.devices = l] : l \in Tails(BaseDevice, Devices, MaxItems)}
    \cup {[BaseSystem EXCEPT !.zones = l] : l \in Tails(BaseZone, Zones, MaxItems)}
    \cup {[BaseSystem EXCEPT !.circuits = l] : l \in Tails(BaseCircuit, Circuits, MaxItems)}
    \cup {[BaseSystem EXCEPT !.domestic_hot_water = l] :
            l \in Tails(BaseDomesticHotWater, DomesticHotWaters, MaxItems)}

UpdateSystemDataSets ==
    {None} \cup {Some(l) : l \in Tails(BaseSystem, UpdateSystems, MaxSystems)}

(***************************************************************************)
(* Sensor objects: the class and the indexes the constructor stores.       *)
(***************************************************************************)
SystemSensor(cls, index) == [cls |-> cls, index |-> index]

HomeEntity(system_index) == [cls |-> "HomeEntity", system_index |-> system_index]

SystemDeviceSensor(cls, system_index, device_index) ==
    [cls |-> cls, system_index |-> system_index, device_index |-> device_index]

ZoneEntity(cls, system_index, zone_index) ==
    [cls |-> cls, system_index |-> system_index, zone_index |-> zone_index]

CircuitSensor(cls, system_index, circuit_index) ==
    [cls |-> cls, system_index |-> system_index, circuit_index |-> circuit_index]

DomesticHotWaterSensor(cls, system_index, dhw_index) ==
    [cls |-> cls, system_index |-> system_index, dhw_index |-> dhw_index]

SystemSensorClasses == {"SystemOutdoorTemperatureSensor", "SystemWaterPressureSensor"}
SystemDeviceSensorClasses == {"SystemDeviceWaterPressureSensor"}
ZoneEntityClasses ==
    {"ZoneDesiredRoomTemperatureSetpointSensor", "ZoneCurrentRoomTemperatureSensor",
     "ZoneHumiditySensor", "ZoneHeatingOperatingModeSensor", "ZoneHeatingStateSensor",
     "ZoneCurrentSpecialFunctionSensor"}
CircuitSensorClasses ==
    {"CircuitStateSensor", "CircuitFlowTemperatureSensor", "CircuitHeatingCurveSensor",
     "CircuitMinFlowTemperatureSetpointSensor"}
DomesticHotWaterSensorClasses ==
    {"DomesticHotWaterTankTemperatureSensor", "DomesticHotWaterSetPointSensor",
     "DomesticHotWaterOperationModeSensor", "DomesticHotWaterCurrentSpecialFunctionSensor"}

(***************************************************************************)
(* create_system_sensors: the sensors of one system, in the order of the   *)
(* loop body, then the whole list.                                         *)
(***************************************************************************)
DeviceSensors(index, device_index, device) ==
    IF HasKey(device.operational_data, "water_pressure")
    THEN <<SystemDeviceSensor("SystemDeviceWaterPressureSensor", index, device_index)>>
    ELSE <<>>

\* the zone sensors with the two index arguments interchanged
ZoneSensors_swapped(index, zone_index, zone) ==
    <<ZoneEntity("ZoneDesiredRoomTemperatureSetpointSensor", zone_index, index)>>
    \o (IF zone.current_room_temperature # None
        THEN <<ZoneEntity("ZoneCurrentRoomTemperatureSensor", zone_index, index)>>
        ELSE <<>>)
    \o (IF zone.current_room_humidity # None
        THEN <<ZoneEntity("ZoneHumiditySensor", zone_index, index)>>
        ELSE <<>>)
    \o <<ZoneEntity("ZoneHeatingOperatingModeSensor", zone_index, index),
         ZoneEntity("ZoneHeatingStateSensor", zone_index, index),
         ZoneEntity("ZoneCurrentSpecialFunctionSensor", zone_index, index)>>

\* the zone sensors with the humidity tested for truth, not for None
ZoneSensors_truthy(index, zone_index, zone) ==
    <<ZoneEntity("ZoneDesiredRoomTemperatureSetpointSensor", index, zone_index)>>
    \o (IF zone.current_room_temperature # None
        THEN <<ZoneEntity("ZoneCurrentRoomTemperatureSensor", index, zone_index)>>
        ELSE <<>>)
    \o (IF Truthy(zone.current_room_humidity)
        THEN <<ZoneEntity("ZoneHumiditySensor", index, zone_index)>>
        ELSE <<>>)
    \o <<ZoneEntity("ZoneHeatingOperatingModeSensor", index, zone_index),
         ZoneEntity("ZoneHeatingStateSensor", index, zone_index),
         ZoneEntity("ZoneCurrentSpecialFunctionSensor", index, zone_index)>>

ZoneSensors(index, zone_index, zone) ==
    <<ZoneEntity("ZoneDesiredRoomTemperatureSetpointSensor", index, zone_index)>>
    \o (IF zone.current_room_temperature # None
        THEN <<ZoneEntity("ZoneCurrentRoomTemperatureSensor", index, zone_index)>>
        ELSE <<>>)
    \o (IF zone.current_room_humidity # None
        THEN <<ZoneEntity("ZoneHumiditySensor", index, zone_index)>>
        ELSE <<>>)
    \o <<ZoneEntity("ZoneHeatingOperatingModeSensor", index, zone_index),
         ZoneEntity("ZoneHeatingStateSensor", index, zone_index),
         ZoneEntity("ZoneCurrentSpecialFunctionSensor", index, zone_index)>>

CircuitSensors(index, circuit_index, circuit) ==
    <<CircuitSensor("CircuitStateSensor", index, circuit_index)>>
    \o (IF circuit.current_circuit_flow_temperature # None
        THEN <<CircuitSensor("CircuitFlowTemperatureSensor", index, circuit_index)>>
        ELSE <<>>)
    \o (IF circuit.heating_curve # None
        THEN <<CircuitSensor("CircuitHeatingCurveSensor", index, circuit_index)>>
        ELSE <<>>)
    \o (IF circuit.min_flow_temperature_setpoint # None
        THEN <<CircuitSensor("CircuitMinFlowTemperatureSetpointSensor", index, circuit_index)>>
        ELSE <<>>)

DomesticHotWaterSensors(index, dhw_index, dhw) ==
    (IF Truthy(dhw.current_dhw_temperature)
     THEN <<DomesticHotWaterSensor("DomesticHotWaterTankTemperatureSensor", index, dhw_index)>>
     ELSE <<>>)
    \o <<DomesticHotWaterSensor("DomesticHotWaterSetPointSensor", index, dhw_index),
         DomesticHotWaterSensor("DomesticHotWaterOperationModeSensor", index, dhw_index),
         DomesticHotWaterSensor("DomesticHotWaterCurrentSpecialFunctionSensor", index, dhw_index)>>

SensorsOfSystem(index, system) ==
    (IF system.outdoor_temperature # None
     THEN <<SystemSensor("SystemOutdoorTemperatureSensor", index)>>
     ELSE <<>>)
    \o (IF system.water_pressure # None
        THEN <<SystemSensor("SystemWaterPressureSensor", index)>>
        ELSE <<>>)
    \o <<HomeEntity(index)>>
    \o Concat([i \in 1..Len(system.devices) |->
                 DeviceSensors(index, i - 1, system.devices[i])])
    \o Concat([i \in 1..Len(system.zones) |->
                 ZoneSensors(index, i - 1, system.zones[i])])
    \o Concat([i \in 1..Len(system.circuits) |->
                 CircuitSensors(index, i - 1, system.circuits[i])])
    \o Concat([i \in 1..Len(system.domestic_hot_water) |->
                 DomesticHotWaterSensors(index, i - 1, system.domestic_hot_water[i])])

create_system_sensors(data) ==
    IF ~NonEmpty(data)
    THEN <<>>
    ELSE Concat([i \in 1..Len(data[1]) |-> SensorsOfSystem(i - 1, data[1][i])])

(***************************************************************************)
(* The accessors: every base class reads coordinator.data at the indexes   *)
(* the sensor stores.  The operators below assume the path exists;         *)
(* PathError says which exception the subscripts raise when it does not.   *)
(***************************************************************************)
SystemSensor_system(s, data) == data[1][s.index + 1]

HomeEntity_system(s, data) == data[1][s.system_index + 1]

SystemDeviceSensor_system(s, data) == data[1][s.system_index + 1]

SystemDeviceSensor_device(s, data) ==
    SystemDeviceSensor_system(s, data).devices[s.device_index + 1]

ZoneEntity_system(s, data) == data[1][s.system_index + 1]

\* a zone property that keeps the Zone object it found at construction
ZoneEntity_zone_cached(s, data) ==
    IF created_from.system = None
    THEN data[1][s.system_index + 1].zones[s.zone_index + 1]
    ELSE created_from.system[1][s.system_index + 1].zones[s.zone_index + 1]

ZoneEntity_zone(s, data) == ZoneEntity_system(s, data).zones[s.zone_index + 1]

CircuitSensor_system(s, data) == data[1][s.system_index + 1]

CircuitSensor_circuit(s, data) ==
    CircuitSensor_system(s, data).circuits[s.circuit_index + 1]

DomesticHotWaterSensor_system(s, data) == data[1][s.system_index + 1]

DomesticHotWaterSensor_domestic_hot_water(s, data) ==
    DomesticHotWaterSensor_system(s, data).domestic_hot_water[s.dhw_index + 1]

\* the exception raised by list[i] of a list that may be None, "" if none
Subscript(list, i) ==
    IF list = None THEN "TypeError"
    ELSE IF i >= Len(list[1]) THEN "IndexError"
    ELSE ""

PathError(s, data) ==
    LET index == IF s.cls \in SystemSensorClasses THEN s.index ELSE s.system_index
        outer == Subscript(data, index)
    IN  IF outer # "" THEN outer
        ELSE LET system == data[1][index + 1]
             IN  IF s.cls \in SystemDeviceSensorClasses
                    THEN Subscript(Some(system.devices), s.device_index)
                 ELSE IF s.cls \in ZoneEntityClasses
                    THEN Subscript(Some(system.zones), s.zone_index)
                 ELSE IF s.cls \in CircuitSensorClasses
                    THEN Subscript(Some(system.circuits), s.circuit_index)
                 ELSE IF s.cls \in DomesticHotWaterSensorClasses
                    THEN Subscript(Some(system.domestic_hot_water), s.dhw_index)
                 ELSE ""

(***************************************************************************)
(* native_value of each class, as a function of the object the accessor    *)
(* returned.                                                               *)
(***************************************************************************)
SystemSensor_native_value(cls, system) ==
    IF cls = "SystemOutdoorTemperatureSensor"
    THEN IF system.outdoor_temperature # None
         THEN Some(round(system.outdoor_temperature[1]))
         ELSE None
    ELSE IF system.water_pressure # None
         THEN Some(round(system.water_pressure[1]))
         ELSE None

HomeEntity_native_value(system) == Some(system.home.firmware_version)

SystemDeviceWaterPressureSensor_native_value(device) ==
    Get(Get(device.operational_data, "water_pressure", {}), "value", None)

ZoneEntity_native_value(cls, zone) ==
    CASE cls = "ZoneDesiredRoomTemperatureSetpointSensor" ->
            IF Truthy(zone.desired_room_temperature_setpoint_heating)
            THEN zone.desired_room_temperature_setpoint_heating
            ELSE IF Truthy(zone.desired_room_temperature_setpoint_cooling)
            THEN zone.desired_room_temperature_setpoint_cooling
            ELSE zone.desired_room_temperature_setpoint
      [] cls = "ZoneCurrentRoomTemperatureSensor" ->
            IF zone.current_room_temperature = None
            THEN None
            ELSE Some(round(zone.current_room_temperature[1]))
      [] cls = "ZoneHumiditySensor" -> zone.current_room_humidity
      [] cls = "ZoneHeatingOperatingModeSensor" ->
            Some(zone.heating.operation_mode_heating.display_value)
      [] cls = "ZoneHeatingStateSensor" -> Some(zone.heating_state.display_value)
      [] cls = "ZoneCurrentSpecialFunctionSensor" ->
            Some(zone.current_special_function.display_value)

CircuitSensor_native_value(cls, circuit) ==
    CASE cls = "CircuitFlowTemperatureSensor" -> circuit.current_circuit_flow_temperature
      [] cls = "CircuitStateSensor" -> Some(circuit.circuit_state)
      [] cls = "CircuitMinFlowTemperatureSetpointSensor" ->
            circuit.min_flow_temperature_setpoint
      [] cls = "CircuitHeatingCurveSensor" ->
            IF circuit.heating_curve # None
            THEN Some(round(circuit.heating_curve[1]))
            ELSE None

DomesticHotWaterSensor_native_value(cls, dhw) ==
    CASE cls = "DomesticHotWaterTankTemperatureSensor" -> dhw.current_dhw_temperature
      [] cls = "DomesticHotWaterSetPointSensor" -> dhw.tapping_setpoint
      [] cls = "DomesticHotWaterOperationModeSensor" ->
            Some(dhw.operation_mode_dhw.display_value)
      [] cls = "DomesticHotWaterCurrentSpecialFunctionSensor" ->
            Some(dhw.current_special_function.display_value)

\* sensor.native_value evaluated against the coordinator's data
native_value(s, data) ==
    IF PathError(s, data) # "" THEN Raise(PathError(s, data))
    ELSE IF s.cls \in SystemSensorClasses
        THEN Return(SystemSensor_native_value(s.cls, SystemSensor_system(s, data)))
    ELSE IF s.cls = "HomeEntity"
        THEN Return(HomeEntity_native_value(HomeEntity_system(s, data)))
    ELSE IF s.cls \in SystemDeviceSensorClasses
        THEN Return(SystemDeviceWaterPressureSensor_native_value(
                        SystemDeviceSensor_device(s, data)))
    ELSE IF s.cls \in ZoneEntityClasses
        THEN Return(ZoneEntity_native_value(s.cls, ZoneEntity_zone(s, data)))
    ELSE IF s.cls \in CircuitSensorClasses
        THEN Return(CircuitSensor_native_value(s.cls, CircuitSensor_circuit(s, data)))
    ELSE Return(DomesticHotWaterSensor_native_value(
                    s.cls, DomesticHotWaterSensor_domestic_hot_water(s, data)))

\* extra_state_attributes of the two classes that define it: the value and
\* the coordinator data as the evaluation leaves it
extra_state_attributes(s, data) ==
    IF s.cls = "HomeEntity"
    THEN LET system == HomeEntity_system(s, data)
             u == DictUnion(system.home.extra_fields, system.extra_fields)
         IN  [value |-> u.result,
              data |-> Some([data[1] EXCEPT ![s.system_index + 1].home.extra_fields = u.left])]
    ELSE [value |-> CircuitSensor_circuit(s, data).extra_fields, data |-> data]

(***************************************************************************)
(* The daily data the second coordinator caches: a dict from system id to  *)
(* {"home_name", "devices_data"}, kept as the list of its items in         *)
(* insertion order; devices_data is a list of rows, one per device, each a *)
(* list of DeviceData entries holding a list of DeviceDataBucket.          *)
(***************************************************************************)
MaxRows == 2
MaxEntries == 2
MaxBuckets == 2

ENERGY_WATT_HOUR == "Wh"

DATA_UNIT_MAP ==
    {<<"CONSUMED_ELECTRICAL_ENERGY", ENERGY_WATT_HOUR>>,
     <<"EARNED_ENVIRONMENT_ENERGY", ENERGY_WATT_HOUR>>,
     <<"HEAT_GENERATED", ENERGY_WATT_HOUR>>,
     <<"CONSUMED_PRIMARY_ENERGY", ENERGY_WATT_HOUR>>,
     <<"EARNED_SOLAR_ENERGY", ENERGY_WATT_HOUR>>}

EnergyTypes ==
    {None, Some("CONSUMED_ELECTRICAL_ENERGY"), Some("EARNED_ENVIRONMENT_ENERGY"),
     Some("HEAT_GENERATED"), Some("CONSUMED_PRIMARY_ENERGY"), Some("EARNED_SOLAR_ENERGY"),
     Some("COOLING_ENERGY")}

BaseDailyDevice ==
    [device_uuid |-> "uuid-1", name_display |-> "Heat Pump",
     brand_name |-> "Vaillant", product_name_display |-> "aroTHERM"]

OtherDailyDevice ==
    [device_uuid |-> "uuid-2", name_display |-> "Boiler",
     brand_name |-> "Vaillant", product_name_display |-> "ecoTEC"]

BucketValues == {None, Some(0), Some(1200)}

DeviceDataBucket(value) == [value |-> value]

\* every list of at most max buckets
RECURSIVE BucketLists(_)
BucketLists(max) ==
    IF max = 0 THEN {<<>>}
    ELSE BucketLists(max - 1)
         \cup {Append(l, DeviceDataBucket(v)) :
                 l \in {b \in BucketLists(max - 1) : Len(b) = max - 1}, v \in BucketValues}

BaseDeviceData ==
    [energy_type |-> Some("CONSUMED_ELECTRICAL_ENERGY"),
     operation_mode |-> "HEATING",
     device |-> Some(BaseDailyDevice),
     data |-> <<DeviceDataBucket(Some(1200))>>]

DeviceDatas ==
    {[BaseDeviceData EXCEPT !.energy_type = t] : t \in EnergyTypes}
    \cup {[BaseDeviceData EXCEPT !.device = d] : d \in {None, Some(OtherDailyDevice)}}
    \cup {[BaseDeviceData EXCEPT !.operation_mode = "DOMESTIC_HOT_WATER"]}
    \cup {[BaseDeviceData EXCEPT !.data = l] : l \in BucketLists(MaxBuckets)}
    \cup {[BaseDeviceData EXCEPT !.energy_type = Some("HEAT_GENERATED"), !.data = l] :
            l \in {<<DeviceDataBucket(Some(3000))>>,
                   <<DeviceDataBucket(Some(1200)), DeviceDataBucket(Some(4500))>>}}
    \cup {[BaseDeviceData EXCEPT !.data = <<DeviceDataBucket(Some(-500))>>]}

BaseRow == <<BaseDeviceData>>

Rows == Tails(BaseDeviceData, DeviceDatas, MaxEntries)

SystemIds == <<"system-a", "system-b", "system-c">>

DailyItem(system_id, devices_data) ==
    [system_id |-> system_id, home_name |-> "Home", devices_data |-> devices_data]

DevicesDatas == Tails(BaseRow, Rows, MaxRows)

\* the dicts with the first n system ids as keys, the last of them with any
\* devices_data and the others with the base one
DailyDicts ==
    {[i \in 1..n |-> DailyItem(SystemIds[i], IF i = n THEN dd ELSE <<BaseRow>>)] :
        n \in 1..MaxSystems, dd \in DevicesDatas}

\* every value daily_data_coordinator.data takes in the model
DailyDataSets == {None, Some(<<>>)} \cup {Some(d) : d \in DailyDicts}

FullRow == [e \in 1..MaxEntries |-> BaseDeviceData]

\* the data sets the sensors of the update runs are created from: every
\* system id with MaxRows rows of MaxEntries entries, the entries of the last
\* system being of a known energy type, an unknown one, or of none
FullDailyDataSets ==
    {Some([i \in 1..MaxSystems |->
             DailyItem(SystemIds[i],
                       [r \in 1..MaxRows |->
                          [e \in 1..MaxEntries |->
                             IF i = MaxSystems
                             THEN [BaseDeviceData EXCEPT !.energy_type = t]
                             ELSE BaseDeviceData]])]) :
        t \in {Some("CONSUMED_ELECTRICAL_ENERGY"), Some("COOLING_ENERGY"), None}}

\* the devices_data a refresh installs for the last system in the update
\* runs: fewer rows, or a last row that is shorter or ends in any entry
UpdateDevicesDatas ==
    {[r \in 1..n |-> FullRow] : n \in 0..MaxRows}
    \cup {[r \in 1..MaxRows |-> IF r = MaxRows THEN row ELSE FullRow] :
            row \in Tails(BaseDeviceData, DeviceDatas, MaxEntries)}

UpdateDailyDataSets ==
    {None}
    \cup {Some([i \in 1..MaxSystems |->
                  DailyItem(SystemIds[i], IF i = MaxSystems THEN dd ELSE <<FullRow>>)]) :
            dd \in UpdateDevicesDatas}

\* coordinator.data[system_id]: the exception the subscripts raise, "" if none
ItemError(data, system_id) ==
    IF data = None THEN "TypeError"
    ELSE IF \A i \in 1..Len(data[1]) : data[1][i].system_id # system_id THEN "KeyError"
    ELSE ""

\* coordinator.data[system_id], the key being present
Item(data, system_id) ==
    data[1][CHOOSE i \in 1..Len(data[1]) : data[1][i].system_id = system_id]

(***************************************************************************)
(* utils.get_name_prefix and utils.get_unique_id_prefix format a prefix    *)
(* from their argument; a formatted string is kept as the tuple of its     *)
(* parts.                                                                  *)
(***************************************************************************)
get_name_prefix(home_name) == <<"name_prefix", home_name>>

get_unique_id_prefix(system_id) == <<"unique_id_prefix", system_id>>

\* s.replace("_", " ").title() on the strings the model uses
Title(str) ==
    CASE str = "HEATING" -> "Heating"
      [] str = "DOMESTIC_HOT_WATER" -> "Domestic Hot Water"
      [] str = "CONSUMED_ELECTRICAL_ENERGY" -> "Consumed Electrical Energy"
      [] str = "EARNED_ENVIRONMENT_ENERGY" -> "Earned Environment Energy"
      [] str = "HEAT_GENERATED" -> "Heat Generated"
      [] str = "CONSUMED_PRIMARY_ENERGY" -> "Consumed Primary Energy"
      [] str = "EARNED_SOLAR_ENERGY" -> "Earned Solar Energy"
      [] str = "COOLING_ENERGY" -> "Cooling Energy"

(***************************************************************************)
(* DataSensor.  A property evaluates to None, to Some(v), or to Exc(e)     *)
(* when a subscript raises e; a property that reads a raising property     *)
(* raises the same.                                                        *)
(***************************************************************************)
Exc(e) == <<"raise", e>>

IsExc(r) == Len(r) = 2

\* list[i] for i >= 0
GetItem(list, i) == IF i < Len(list) THEN Some(list[i + 1]) ELSE Exc("IndexError")

\* device_data with the length of the row left unchecked
DataSensor_device_data_unchecked(s, data) ==
    IF ItemError(data, s.system_id) # "" THEN Exc(ItemError(data, s.system_id))
    ELSE LET devices_data == Item(data, s.system_id).devices_data
         IN  IF Len(devices_data) <= s.de_index THEN None
             ELSE GetItem(GetItem(devices_data, s.de_index)[1], s.da_index)

DataSensor_device_data(s, data) ==
    IF ItemError(data, s.system_id) # "" THEN Exc(ItemError(data, s.system_id))
    ELSE LET devices_data == Item(data, s.system_id).devices_data
         IN  IF Len(devices_data) <= s.de_index THEN None
             ELSE IF Len(devices_data[s.de_index + 1]) <= s.da_index THEN None
             ELSE IF IsExc(GetItem(devices_data, s.de_index))
                  THEN GetItem(devices_data, s.de_index)
             ELSE GetItem(GetItem(devices_data, s.de_index)[1], s.da_index)

DataSensor_home_name(s, data) ==
    IF ItemError(data, s.system_id) # "" THEN Exc(ItemError(data, s.system_id))
    ELSE Some(Item(data, s.system_id).home_name)

DataSensor_device(s, data) ==
    LET device_data == DataSensor_device_data(s, data)
    IN  IF IsExc(device_data) THEN device_data
        ELSE IF device_data = None THEN None
        ELSE device_data[1].device

\* data_bucket as the last bucket of the entry, whatever its value
DataSensor_data_bucket_last(s, data) ==
    LET device_data == DataSensor_device_data(s, data)
    IN  IF IsExc(device_data) THEN device_data
        ELSE IF device_data = None THEN None
        ELSE IF Len(device_data[1].data) > 0
             THEN Some(device_data[1].data[Len(device_data[1].data)])
             ELSE None

DataSensor_data_bucket(s, data) ==
    LET device_data == DataSensor_device_data(s, data)
    IN  IF IsExc(device_data) THEN device_data
        ELSE IF device_data = None THEN None
        ELSE LET d == SelectSeq(device_data[1].data, LAMBDA b : b.value # None)
             IN  IF Len(d) > 0 THEN Some(d[Len(d)]) ELSE None

DataSensor_name(s, data) ==
    LET device == DataSensor_device(s, data)
        device_data == DataSensor_device_data(s, data)
    IN  IF IsExc(device) THEN device
        ELSE IF device = None \/ device_data = None THEN None
        ELSE LET name == device[1].name_display
                 om == Title(device_data[1].operation_mode)
                 et == IF device_data[1].energy_type # None
                       THEN <<Title(device_data[1].energy_type[1]), " ">>
                       ELSE <<>>
             IN  Some(<<get_name_prefix(DataSensor_home_name(s, data)[1]), s.de_index,
                        " ", name, " ", et, om>>)

DataSensor_unique_id(s, data) ==
    LET device == DataSensor_device(s, data)
    IN  IF IsExc(device) THEN device
        ELSE IF device = None THEN None
        ELSE Some(<<get_unique_id_prefix(s.system_id), device[1].device_uuid, "_",
                    s.da_index>>)

DataSensor_device_info(s, data) ==
    LET device == DataSensor_device(s, data)
    IN  IF IsExc(device) THEN device
        ELSE IF device = None THEN None
        ELSE Some([identifiers |-> {<<"mypyllant", <<"device_", s.system_id, "_",
                                                     device[1].device_uuid>>>>},
                   name |-> <<get_name_prefix(DataSensor_home_name(s, data)[1]),
                              s.de_index, " ", device[1].name_display>>,
                   manufacturer |-> device[1].brand_name,
                   model |-> device[1].product_name_display])

\* a DeviceDataBucket object is truthy whatever its value
DataSensor_native_value(s, data) ==
    LET data_bucket == DataSensor_data_bucket(s, data)
    IN  IF IsExc(data_bucket) THEN data_bucket
        ELSE IF data_bucket # None THEN data_bucket[1].value
        ELSE None

\* DataSensor.__init__: the indexes, and the unit chosen from the entry's
\* energy_type as the data is at construction
DataSensor(system_id, de_index, da_index, data) ==
    LET self == [system_id |-> system_id, de_index |-> de_index, da_index |-> da_index]
        device_data == DataSensor_device_data(self, data)
    IN  [cls |-> "DataSensor", system_id |-> system_id, de_index |-> de_index,
         da_index |-> da_index,
         native_unit_of_measurement |->
            IF device_data # None /\ device_data[1].energy_type # None
               /\ HasKey(DATA_UNIT_MAP, device_data[1].energy_type[1])
            THEN Some(Get(DATA_UNIT_MAP, device_data[1].energy_type[1], None))
            ELSE None]

\* DataSensor._handle_coordinator_update: the state write of the base class
\* (name, device_info), then the values the debug line evaluates; it
\* completes with these values or raises the first exception met
DataSensor_handle_coordinator_update(s, data) ==
    LET device_data == DataSensor_device_data(s, data)
        read == <<DataSensor_name(s, data), DataSensor_device_info(s, data),
                  DataSensor_unique_id(s, data), DataSensor_native_value(s, data),
                  device_data>>
        raising == {k \in 1..Len(read) : IsExc(read[k])}
    IN  IF raising # {}
        THEN Raise(read[CHOOSE k \in raising : \A j \in raising : k <= j][2])
        ELSE Return(Some([name |-> read[1],
                          device_info |-> read[2],
                          unique_id |-> read[3],
                          native_value |-> read[4],
                          data |-> IF device_data # None
                                   THEN Some(device_data[1].data)
                                   ELSE None]))

(***************************************************************************)
(* EfficiencySensor.                                                       *)
(***************************************************************************)
EfficiencySensor(system_id, de_index) ==
    [cls |-> "EfficiencySensor", system_id |-> system_id, de_index |-> de_index]

\* the exception device_data_list raises, "" if none
EfficiencySensor_error(s, data) ==
    IF ItemError(data, s.system_id) # "" THEN ItemError(data, s.system_id)
    ELSE IF s.de_index # None
            /\ s.de_index[1] >= Len(Item(data, s.system_id).devices_data)
         THEN "IndexError"
    ELSE ""

EfficiencySensor_device_data_list(s, data) ==
    IF s.de_index = None
    THEN Concat(Item(data, s.system_id).devices_data)
    ELSE Item(data, s.system_id).devices_data[s.de_index[1] + 1]

RECURSIVE Sum(_)
Sum(values) == IF values = <<>> THEN 0 ELSE Head(values) + Sum(Tail(values))

\* the sum taking, like DataSensor.data_bucket, the last bucket that has a
\* value instead of the last bucket
EnergyOfType_last_with_value(list, energy_type) ==
    LET buckets(v) == SelectSeq(v.data, LAMBDA b : b.value # None)
        counted == SelectSeq(list,
                     LAMBDA v : /\ Len(buckets(v)) > 0
                                /\ Truthy(buckets(v)[Len(buckets(v))].value)
                                /\ v.energy_type = Some(energy_type))
    IN  Sum([i \in 1..Len(counted) |->
               buckets(counted[i])[Len(buckets(counted[i]))].value[1]])

\* sum of the last bucket's value over the entries of one energy type whose
\* last bucket exists and has a truthy value
EnergyOfType(list, energy_type) ==
    LET counted == SelectSeq(list,
                     LAMBDA v : /\ Len(v.data) > 0
                                /\ Truthy(v.data[Len(v.data)].value)
                                /\ v.energy_type = Some(energy_type))
    IN  Sum([i \in 1..Len(counted) |-> counted[i].data[Len(counted[i].data)].value[1]])

EfficiencySensor_energy_consumed(s, data) ==
    EnergyOfType(EfficiencySensor_device_data_list(s, data), "CONSUMED_ELECTRICAL_ENERGY")

EfficiencySensor_heat_energy_generated(s, data) ==
    EnergyOfType(EfficiencySensor_device_data_list(s, data), "HEAT_GENERATED")

\* round(h / c, 1) for c > 0, in 1/10: the nearest tenth; a quotient that is
\* an exact tie is a multiple of 1/4 for the energies of the model, which a
\* float holds exactly, and Python rounds it to the even neighbour
RoundedRatio(h, c) ==
    LET q == (10 * h) \div c
        r == (10 * h) % c
    IN  IF 2 * r < c THEN q
        ELSE IF 2 * r > c THEN q + 1
        ELSE IF q % 2 = 0 THEN q ELSE q + 1

\* native_value dividing without the test of energy_consumed
EfficiencySensor_native_value_unguarded(s, data) ==
    LET h == EfficiencySensor_heat_energy_generated(s, data)
        c == EfficiencySensor_energy_consumed(s, data)
    IN  IF EfficiencySensor_error(s, data) # "" THEN Raise(EfficiencySensor_error(s, data))
        ELSE IF c = 0 THEN Raise("ZeroDivisionError")
        ELSE IF c > 0 THEN Return(Some(RoundedRatio(h, c)))
        ELSE Return(Some(0 - RoundedRatio(h, 0 - c)))

EfficiencySensor_native_value(s, data) ==
    IF EfficiencySensor_error(s, data) # "" THEN Raise(EfficiencySensor_error(s, data))
    ELSE IF EfficiencySensor_energy_consumed(s, data) > 0
         THEN Return(Some(RoundedRatio(EfficiencySensor_heat_energy_generated(s, data),
                                       EfficiencySensor_energy_consumed(s, data))))
         ELSE Return(None)

\* unique_id without the device branch: the system-level format always
EfficiencySensor_unique_id_systemwide(s, data) ==
    <<get_unique_id_prefix(s.system_id), "heating_energy_efficiency">>

\* the three formats of the daily unique ids differ as strings whatever the
\* uuid is: after the prefix, a DataSensor id ends in "_" and the digits of
\* da_index, a device-level id is longer than the system-level one by the
\* uuid and "_", and both of these end in "efficiency"; so the parts of an id
\* determine it and are kept apart
EfficiencySensor_unique_id(s, data) ==
    LET list == EfficiencySensor_device_data_list(s, data)
    IN  IF Len(list) > 0 /\ s.de_index # None /\ list[1].device # None
        THEN <<get_unique_id_prefix(s.system_id), list[1].device[1].device_uuid,
               "_heating_energy_efficiency">>
        ELSE <<get_unique_id_prefix(s.system_id), "heating_energy_efficiency">>

(***************************************************************************)
(* create_daily_data_sensors.                                              *)
(***************************************************************************)
\* the sensors of a row without the test that skips an empty row
SensorsOfRow_noskip(system_id, de_index, devices_data, data) ==
    <<[cls |-> "EfficiencySensor", system_id |-> system_id, de_index |-> Some(de_index)]>>
    \o [da \in 1..Len(Item(data, system_id).devices_data[de_index + 1]) |->
          DataSensor(system_id, de_index, da - 1, data)]

SensorsOfRow(system_id, de_index, devices_data, data) ==
    IF Len(devices_data) = 0
    THEN <<>>
    ELSE <<EfficiencySensor(system_id, Some(de_index))>>
         \o [da \in 1..Len(Item(data, system_id).devices_data[de_index + 1]) |->
               DataSensor(system_id, de_index, da - 1, data)]

SensorsOfDailyItem(item, data) ==
    <<EfficiencySensor(item.system_id, None)>>
    \o Concat([de \in 1..Len(item.devices_data) |->
                 SensorsOfRow(item.system_id, de - 1, item.devices_data[de], data)])

create_daily_data_sensors(data) ==
    IF ~NonEmpty(data)
    THEN <<>>
    ELSE Concat([i \in 1..Len(data[1]) |-> SensorsOfDailyItem(data[1][i], data)])

\* what a state write of a daily sensor evaluates against the data
DailyState(s, data) ==
    IF s.cls = "DataSensor"
    THEN DataSensor_handle_coordinator_update(s, data)
    ELSE EfficiencySensor_native_value(s, data)

(***************************************************************************)
(* The operations.                                                         *)
(***************************************************************************)
\* async_setup_entry: both factories, each list handed to async_add_entities,
\* which has every added entity write its first state
\* the calls recorded latest first
async_add_entities_prepend(added, entities) == <<entities>> \o added

async_add_entities(added, entities) == Append(added, entities)

AsyncSetupEntry ==
    /\ added_entities = <<>>
    /\ LET system_sensors == create_system_sensors(system_data)
           daily_sensors == create_daily_data_sensors(daily_data)
       IN  /\ added_entities' =
                async_add_entities(async_add_entities(added_entities, system_sensors),
                                   daily_sensors)
           /\ system_states' =
                [i \in 1..Len(system_sensors) |-> native_value(system_sensors[i], system_data)]
           /\ daily_states' =
                [i \in 1..Len(daily_sensors) |-> DailyState(daily_sensors[i], daily_data)]
    /\ created_from' = [system |-> system_data, daily |-> daily_data]
    /\ UNCHANGED <<system_data, daily_data, last_attributes>>

\* the system coordinator replaces its data and every system sensor writes
\* its state
SystemCoordinatorUpdate(data) ==
    /\ Len(added_entities) = 2
    /\ system_data' = data
    /\ system_states' =
         [i \in 1..Len(added_entities[1]) |-> native_value(added_entities[1][i], data)]
    /\ UNCHANGED <<daily_data, added_entities, daily_states, created_from, last_attributes>>

\* the daily data coordinator replaces its data and every daily sensor runs
\* _handle_coordinator_update
DailyCoordinatorUpdate(data) ==
    /\ Len(added_entities) = 2
    /\ daily_data' = data
    /\ daily_states' =
         [i \in 1..Len(added_entities[2]) |-> DailyState(added_entities[2][i], data)]
    /\ UNCHANGED <<system_data, added_entities, system_states, created_from, last_attributes>>

\* the host reads extra_state_attributes of a sensor that defines it
ReadExtraStateAttributes(i) ==
    /\ Len(added_entities) = 2
    /\ i \in 1..Len(added_entities[1])
    /\ added_entities[1][i].cls \in {"HomeEntity", "CircuitStateSensor"}
    /\ PathError(added_entities[1][i], system_data) = ""
    /\ LET r == extra_state_attributes(added_entities[1][i], system_data)
       IN  /\ last_attributes' = Some(r.value)
           /\ system_data' = r.data
    /\ UNCHANGED <<daily_data, added_entities, system_states, daily_states, created_from>>

NoSetup ==
    /\ added_entities = <<>>
    /\ system_states = <<>>
    /\ daily_states = <<>>
    /\ created_from = [system |-> None, daily |-> None]
    /\ last_attributes = None

\* setup from every data set of either coordinator, the other one holding
\* nothing or its base data
Init ==
    /\ NoSetup
    /\ \/ /\ system_data \in SystemDataSets
          /\ daily_data \in {None, Some(<<>>), Some(<<DailyItem(SystemIds[1], <<BaseRow>>)>>)}
       \/ /\ system_data \in {None, Some(<<>>), Some(<<BaseSystem>>)}
          /\ daily_data \in DailyDataSets

Next ==
    \/ AsyncSetupEntry
    \/ \E i \in DOMAIN system_states : ReadExtraStateAttributes(i)

Spec == Init /\ [][Next]_vars

\* system sensors created from fully populated data, then any updates
InitSystemUpdates ==
    /\ NoSetup
    /\ system_data = FullSystemData
    /\ daily_data = None

NextSystemUpdates ==
    \/ AsyncSetupEntry
    \/ \E data \in UpdateSystemDataSets : SystemCoordinatorUpdate(data)

SpecSystemUpdates == InitSystemUpdates /\ [][NextSystemUpdates]_vars

\* daily sensors created from full rows of like entries, then any updates
InitDailyUpdates ==
    /\ NoSetup
    /\ system_data = None
    /\ daily_data \in FullDailyDataSets

NextDailyUpdates ==
    \/ AsyncSetupEntry
    \/ \E data \in UpdateDailyDataSets : DailyCoordinatorUpdate(data)

SpecDailyUpdates == InitDailyUpdates /\ [][NextDailyUpdates]_vars

(***************************************************************************)
(* The claims.                                                             *)
(***************************************************************************)
\* the lists async_setup_entry handed over, empty before it ran
SystemEntities == IF Len(added_entities) = 2 THEN added_entities[1] ELSE <<>>

DailyEntities == IF Len(added_entities) = 2 THEN added_entities[2] ELSE <<>>

\* native_value as computed from the object at the sensor's stored indexes in
\* the data the system coordinator holds now
ValueAtStoredPath(s) ==
    LET system == system_data[1][(IF s.cls \in SystemSensorClasses
                                  THEN s.index ELSE s.system_index) + 1]
    IN  IF s.cls \in SystemSensorClasses THEN SystemSensor_native_value(s.cls, system)
        ELSE IF s.cls = "HomeEntity" THEN HomeEntity_native_value(system)
        ELSE IF s.cls \in SystemDeviceSensorClasses
            THEN SystemDeviceWaterPressureSensor_native_value(
                     system.devices[s.device_index + 1])
        ELSE IF s.cls \in ZoneEntityClasses
            THEN ZoneEntity_native_value(s.cls, system.zones[s.zone_index + 1])
        ELSE IF s.cls \in CircuitSensorClasses
            THEN CircuitSensor_native_value(s.cls, system.circuits[s.circuit_index + 1])
        ELSE DomesticHotWaterSensor_native_value(
                 s.cls, system.domestic_hot_water[s.dhw_index + 1])

\* C1: after any sequence of system coordinator updates, the native_value
\* every system, zone, circuit, hot water and system device sensor last wrote
\* is the one computed from the coordinator's current data at the sensor's
\* stored (system index, sub-index) path, whenever that path still exists.
C1_NativeValueFromCurrentData ==
    \A i \in DOMAIN system_states :
        PathError(SystemEntities[i], system_data) = ""
            => system_states[i] = Return(ValueAtStoredPath(SystemEntities[i]))

\* C1 witness: the data was replaced after the sensors were created, and a
\* zone sensor and a system sensor whose paths still exist wrote values
\* that differ from the ones the creation-time data gives.
C1_Witness ==
    /\ Len(added_entities) = 2
    /\ system_data # created_from.system
    /\ \E i \in DOMAIN system_states :
          /\ SystemEntities[i].cls \in ZoneEntityClasses \cup SystemSensorClasses
          /\ PathError(SystemEntities[i], system_data) = ""
          /\ system_states[i] = Return(ValueAtStoredPath(SystemEntities[i]))
          /\ system_states[i] # native_value(SystemEntities[i], created_from.system)

\* C2: no step of the component (async_setup_entry with both factories and
\* every sensor construction and state write, a read of
\* extra_state_attributes) changes the data either coordinator caches.
C2_CoordinatorDataUnchanged ==
    [][(AsyncSetupEntry \/ \E i \in DOMAIN system_states : ReadExtraStateAttributes(i))
          => (system_data' = system_data /\ daily_data' = daily_data)]_vars

\* C2 witness: both factories ran on non-empty data and the attributes of a
\* HomeEntity, the union of the home's and the system's extra fields, were read.
C2_Witness ==
    /\ SystemEntities # <<>>
    /\ DailyEntities # <<>>
    /\ last_attributes = Some({<<"region", "de">>, <<"status", "ok">>})
    /\ system_data = created_from.system
    /\ daily_data = created_from.daily

Count(list, sensor) == Cardinality({k \in DOMAIN list : list[k] = sensor})

Has(list, sensor) == \E k \in DOMAIN list : list[k] = sensor

\* C3: from non-empty data create_system_sensors returns exactly one
\* HomeEntity per system, exactly one of each of the four unconditional zone
\* classes per zone, one CircuitStateSensor per circuit and one of each of
\* the three unconditional hot water classes per unit, each with the indexes
\* of its object; every sensor's indexes name an object of the data and no
\* two sensors of the list have the same class and indexes.
C3_OneSensorPerObject ==
    LET data == created_from.system
        list == SystemEntities
    IN  (Len(added_entities) = 2 /\ NonEmpty(data)) =>
          /\ \A i \in 1..Len(data[1]) :
                /\ Count(list, [cls |-> "HomeEntity", system_index |-> i - 1]) = 1
                /\ \A z \in 1..Len(data[1][i].zones) :
                     \A c \in {"ZoneDesiredRoomTemperatureSetpointSensor",
                               "ZoneHeatingOperatingModeSensor", "ZoneHeatingStateSensor",
                               "ZoneCurrentSpecialFunctionSensor"} :
                        Count(list, [cls |-> c, system_index |-> i - 1,
                                     zone_index |-> z - 1]) = 1
                /\ \A c \in 1..Len(data[1][i].circuits) :
                     Count(list, [cls |-> "CircuitStateSensor", system_index |-> i - 1,
                                  circuit_index |-> c - 1]) = 1
                /\ \A d \in 1..Len(data[1][i].domestic_hot_water) :
                     \A c \in {"DomesticHotWaterSetPointSensor",
                               "DomesticHotWaterOperationModeSensor",
                               "DomesticHotWaterCurrentSpecialFunctionSensor"} :
                        Count(list, [cls |-> c, system_index |-> i - 1,
                                     dhw_index |-> d - 1]) = 1
          /\ \A k \in DOMAIN list : PathError(list[k], data) = ""
          /\ \A k, l \in DOMAIN list : k # l => list[k] # list[l]

\* C3 witness: two systems, the second with two zones, and the sensors of
\* its second zone and of the first system's circuit in the list.
C3_Witness ==
    /\ Len(added_entities) = 2
    /\ NonEmpty(created_from.system)
    /\ Len(created_from.system[1]) = 2
    /\ Len(created_from.system[1][2].zones) = 2
    /\ Has(SystemEntities, [cls |-> "ZoneHeatingStateSensor", system_index |-> 1,
                            zone_index |-> 1])
    /\ Has(SystemEntities, [cls |-> "CircuitStateSensor", system_index |-> 0,
                            circuit_index |-> 0])

\* C4: create_system_sensors creates each optional sensor exactly when its
\* data point is present (not None; for the device sensor: the key
\* water_pressure is in operational_data), a value of 0 counting as present.
C4_OptionalSensorIffPresent ==
    LET data == created_from.system
        list == SystemEntities
    IN  (Len(added_entities) = 2 /\ NonEmpty(data)) =>
          \A i \in 1..Len(data[1]) :
            LET system == data[1][i]
            IN  /\ Has(list, [cls |-> "SystemOutdoorTemperatureSensor", index |-> i - 1])
                     <=> system.outdoor_temperature # None
                /\ Has(list, [cls |-> "SystemWaterPressureSensor", index |-> i - 1])
                     <=> system.water_pressure # None
                /\ \A d \in 1..Len(system.devices) :
                     Has(list, [cls |-> "SystemDeviceWaterPressureSensor",
                                system_index |-> i - 1, device_index |-> d - 1])
                       <=> \E p \in system.devices[d].operational_data :
                              p[1] = "water_pressure"
                /\ \A z \in 1..Len(system.zones) :
                     /\ Has(list, [cls |-> "ZoneCurrentRoomTemperatureSensor",
                                   system_index |-> i - 1, zone_index |-> z - 1])
                          <=> system.zones[z].current_room_temperature # None
                     /\ Has(list, [cls |-> "ZoneHumiditySensor",
                                   system_index |-> i - 1, zone_index |-> z - 1])
                          <=> system.zones[z].current_room_humidity # None
                /\ \A c \in 1..Len(system.circuits) :
                     /\ Has(list, [cls |-> "CircuitFlowTemperatureSensor",
                                   system_index |-> i - 1, circuit_index |-> c - 1])
                          <=> system.circuits[c].current_circuit_flow_temperature # None
                     /\ Has(list, [cls |-> "CircuitHeatingCurveSensor",
                                   system_index |-> i - 1, circuit_index |-> c - 1])
                          <=> system.circuits[c].heating_curve # None
                     /\ Has(list, [cls |-> "CircuitMinFlowTemperatureSetpointSensor",
                                   system_index |-> i - 1, circuit_index |-> c - 1])
                          <=> system.circuits[c].min_flow_temperature_setpoint # None

\* C4 witness: a zone whose humidity is 0 got its ZoneHumiditySensor.
C4_Witness ==
    /\ Len(added_entities) = 2
    /\ NonEmpty(created_from.system)
    /\ \E i \in 1..Len(created_from.system[1]) :
         \E z \in 1..Len(created_from.system[1][i].zones) :
            /\ created_from.system[1][i].zones[z].current_room_humidity = Some(0)
            /\ Has(SystemEntities, [cls |-> "ZoneHumiditySensor", system_index |-> i - 1,
                                    zone_index |-> z - 1])

\* C5: create_system_sensors creates a DomesticHotWaterTankTemperatureSensor
\* for a hot water unit exactly when its current_dhw_temperature is not None.
C5_TankSensorIffNotNone ==
    LET data == created_from.system
    IN  (Len(added_entities) = 2 /\ NonEmpty(data)) =>
          \A i \in 1..Len(data[1]) :
            \A d \in 1..Len(data[1][i].domestic_hot_water) :
                Has(SystemEntities, [cls |-> "DomesticHotWaterTankTemperatureSensor",
                                     system_index |-> i - 1, dhw_index |-> d - 1])
                  <=> data[1][i].domestic_hot_water[d].current_dhw_temperature # None

\* the number of sensors create_daily_data_sensors makes for one row
RowSensorCount(row) == IF Len(row) = 0 THEN 0 ELSE 1 + Len(row)

\* C6: from non-empty data create_daily_data_sensors returns, per system id,
\* exactly one system-level EfficiencySensor (de_index None); per non-empty
\* device row exactly one EfficiencySensor(de_index) and exactly one
\* DataSensor(de_index, da_index) per entry; nothing for an empty row; so the
\* list has as many sensors as there are systems plus, over the non-empty
\* rows, 1 + the row's length.
C6_DailySensorsPerRow ==
    LET data == created_from.daily
        list == DailyEntities
        Efficiency(id, de) ==
            {k \in DOMAIN list : /\ list[k].cls = "EfficiencySensor"
                                 /\ list[k].system_id = id
                                 /\ list[k].de_index = de}
        Data(id, de) ==
            {k \in DOMAIN list : /\ list[k].cls = "DataSensor"
                                 /\ list[k].system_id = id
                                 /\ list[k].de_index = de}
    IN  (Len(added_entities) = 2 /\ NonEmpty(data)) =>
          /\ \A i \in 1..Len(data[1]) :
               LET id == data[1][i].system_id
                   rows == data[1][i].devices_data
               IN  /\ Cardinality(Efficiency(id, None)) = 1
                   /\ \A de \in 1..Len(rows) :
                        IF Len(rows[de]) = 0
                        THEN Efficiency(id, Some(de - 1)) = {} /\ Data(id, de - 1) = {}
                        ELSE /\ Cardinality(Efficiency(id, Some(de - 1))) = 1
                             /\ Cardinality(Data(id, de - 1)) = Len(rows[de])
                             /\ \A da \in 1..Len(rows[de]) :
                                  Cardinality({k \in Data(id, de - 1) :
                                                 list[k].da_index = da - 1}) = 1
          /\ Len(list) =
               Len(data[1])
               + Sum([i \in 1..Len(data[1]) |->
                        Sum([de \in 1..Len(data[1][i].devices_data) |->
                               RowSensorCount(data[1][i].devices_data[de])])])

\* C6 witness: a system whose devices_data is a row of entries followed by
\* an empty row: three sensors for the first, none for the second.
C6_Witness ==
    /\ Len(added_entities) = 2
    /\ NonEmpty(created_from.daily)
    /\ \E i \in 1..Len(created_from.daily[1]) :
         LET rows == created_from.daily[1][i].devices_data
         IN  /\ Len(rows) = 2
             /\ Len(rows[1]) = 1
             /\ Len(rows[2]) = 0
    /\ Len(DailyEntities) = Len(created_from.daily[1]) + 2 + 2 * (Len(created_from.daily[1]) - 1)

\* C7: when a coordinator's data is None or empty its factory returns an
\* empty list, and async_setup_entry completes all the same: it calls
\* async_add_entities exactly twice, first with the system sensors and then
\* with the daily data sensors.
C7_EmptyDataEmptyList ==
    /\ Len(added_entities) \in {0, 2}
    /\ Len(added_entities) = 2 =>
         /\ ~NonEmpty(created_from.system) => added_entities[1] = <<>>
         /\ ~NonEmpty(created_from.daily) => added_entities[2] = <<>>
         /\ NonEmpty(created_from.system) => added_entities[1] # <<>>
         /\ NonEmpty(created_from.daily) => added_entities[2] # <<>>
         /\ \A k \in DOMAIN added_entities[1] :
              added_entities[1][k].cls \notin {"DataSensor", "EfficiencySensor"}
         /\ \A k \in DOMAIN added_entities[2] :
              added_entities[2][k].cls \in {"DataSensor", "EfficiencySensor"}

\* C7 witness: setup ran with an empty system list and non-empty daily data.
C7_Witness ==
    /\ Len(added_entities) = 2
    /\ created_from.system = Some(<<>>)
    /\ added_entities[1] = <<>>
    /\ NonEmpty(created_from.daily)
    /\ added_entities[2] # <<>>

\* C7 witness for None: setup ran with no system data and no daily data.
C7_WitnessNone ==
    /\ Len(added_entities) = 2
    /\ created_from.system = None
    /\ created_from.daily = None
    /\ added_entities = <<<<>>, <<>>>>

\* the entry at a DataSensor's indexes in the data the daily coordinator
\* holds now: Some(entry), or None when there is none
CurrentEntry(s) ==
    IF daily_data = None
       \/ \A i \in 1..Len(daily_data[1]) : daily_data[1][i].system_id # s.system_id
    THEN None
    ELSE LET rows == (daily_data[1][CHOOSE i \in 1..Len(daily_data[1]) :
                                      daily_data[1][i].system_id = s.system_id]).devices_data
         IN  IF s.de_index < Len(rows) /\ s.da_index < Len(rows[s.de_index + 1])
             THEN Some(rows[s.de_index + 1][s.da_index + 1])
             ELSE None

KnownEnergyTypes ==
    {"CONSUMED_ELECTRICAL_ENERGY", "EARNED_ENVIRONMENT_ENERGY", "HEAT_GENERATED",
     "CONSUMED_PRIMARY_ENERGY", "EARNED_SOLAR_ENERGY"}

\* C8: in every state reached through coordinator updates a DataSensor's unit
\* is the watt-hour constant exactly when the energy_type of its current
\* entry is one of the five known keys; otherwise, or when the entry does not
\* exist, no unit is set.
C8_UnitFollowsCurrentEntry ==
    \A k \in DOMAIN DailyEntities :
        DailyEntities[k].cls = "DataSensor" =>
            LET entry == CurrentEntry(DailyEntities[k])
            IN  DailyEntities[k].native_unit_of_measurement =
                    (IF entry # None /\ entry[1].energy_type # None
                        /\ entry[1].energy_type[1] \in KnownEnergyTypes
                     THEN Some("Wh") ELSE None)

\* C9: native_value of a DataSensor is the value of the last bucket, in list
\* order, of its entry whose value is not None, and None when the entry has
\* no such bucket or does not exist.
C9_LastBucketWithValue ==
    \A k \in DOMAIN daily_states :
        (DailyEntities[k].cls = "DataSensor" /\ daily_states[k].exc = "") =>
            LET entry == CurrentEntry(DailyEntities[k])
                with_value == IF entry = None THEN {}
                              ELSE {b \in DOMAIN entry[1].data :
                                      entry[1].data[b].value # None}
            IN  daily_states[k].value[1].native_value =
                    (IF with_value = {} THEN None
                     ELSE entry[1].data[CHOOSE b \in with_value :
                                          \A c \in with_value : c <= b].value)

\* C9 witness: after an update an entry's buckets are 0 then None, and its
\* sensor wrote 0.
C9_Witness ==
    \E k \in DOMAIN daily_states :
        /\ DailyEntities[k].cls = "DataSensor"
        /\ daily_data # created_from.daily
        /\ CurrentEntry(DailyEntities[k]) # None
        /\ CurrentEntry(DailyEntities[k])[1].data = <<[value |-> Some(0)], [value |-> None]>>
        /\ daily_states[k] # Raise("KeyError")
        /\ daily_states[k].value[1].native_value = Some(0)

\* the index of a DataSensor is out of range in the current data, its
\* system_id still being a key
OutOfRange(s) ==
    /\ daily_data # None
    /\ \E i \in 1..Len(daily_data[1]) : daily_data[1][i].system_id = s.system_id
    /\ CurrentEntry(s) = None

\* C10: when an update leaves a DataSensor's de_index or da_index out of
\* range, its system_id still a key, device_data, device, data_bucket, name,
\* unique_id, device_info and native_value are all None and
\* _handle_coordinator_update completes without raising.
C10_OutOfRangeIsNone ==
    \A k \in DOMAIN daily_states :
        (DailyEntities[k].cls = "DataSensor" /\ OutOfRange(DailyEntities[k])) =>
            /\ daily_states[k] =
                 Return(Some([name |-> None, device_info |-> None, unique_id |-> None,
                              native_value |-> None, data |-> None]))
            /\ DataSensor_device_data(DailyEntities[k], daily_data) = None
            /\ DataSensor_device(DailyEntities[k], daily_data) = None
            /\ DataSensor_data_bucket(DailyEntities[k], daily_data) = None

\* C10 witness: after an update one sensor's row is gone and another's row
\* is shorter than its da_index, and both handlers completed.
C10_Witness ==
    /\ daily_data # created_from.daily
    /\ \E k \in DOMAIN daily_states :
         /\ DailyEntities[k].cls = "DataSensor"
         /\ OutOfRange(DailyEntities[k])
         /\ DailyEntities[k].da_index > 0
         /\ DataSensor_device_data([DailyEntities[k] EXCEPT !.da_index = 0], daily_data) # None
         /\ daily_states[k].exc = ""

\* C11: the state an EfficiencySensor writes at setup is never a division by
\* zero: it is None when energy_consumed is 0 or negative (no consumed entry
\* in scope, or an empty scope, included), and otherwise a tenth nearest to
\* heat_energy_generated / energy_consumed, which is 0 when nothing was
\* generated
EfficiencyStates ==
    {i \in 1..Len(daily_states) : added_entities[2][i].cls = "EfficiencySensor"}

C11_EfficiencyGuardedRatio ==
    Len(added_entities) = 2 =>
      \A i \in EfficiencyStates :
         LET s == added_entities[2][i]
             h == EfficiencySensor_heat_energy_generated(s, daily_data)
             c == EfficiencySensor_energy_consumed(s, daily_data)
             v == daily_states[i].value
         IN  /\ daily_states[i].exc = ""
             /\ c <= 0 => v = None
             /\ c > 0 =>
                  /\ v # None
                  /\ 2 * (10 * h - v[1] * c) <= c
                  /\ 2 * (v[1] * c - 10 * h) <= c
                  /\ h = 0 => v[1] = 0

\* C11 witness: after setup one EfficiencySensor reports a ratio rounded from
\* a tie (4500 / 1200 = 3.75), one reports 0 with positive consumption, one
\* reports None on negative consumption and one on an empty scope
C11_Witness ==
    /\ Len(added_entities) = 2
    /\ \E i \in EfficiencyStates :
          /\ EfficiencySensor_energy_consumed(added_entities[2][i], daily_data) = 1200
          /\ EfficiencySensor_heat_energy_generated(added_entities[2][i], daily_data) = 4500
          /\ daily_states[i] = Return(Some(38))
    /\ \E i \in EfficiencyStates :
          /\ EfficiencySensor_energy_consumed(added_entities[2][i], daily_data) > 0
          /\ daily_states[i] = Return(Some(0))

\* C11 witness: None on a consumption that is negative
C11_WitnessNegative ==
    /\ Len(added_entities) = 2
    /\ \E i \in EfficiencyStates :
          /\ EfficiencySensor_energy_consumed(added_entities[2][i], daily_data) < 0
          /\ daily_states[i] = Return(None)

\* C11 witness: None on an empty scope
C11_WitnessEmptyScope ==
    /\ Len(added_entities) = 2
    /\ \E i \in EfficiencyStates :
          /\ EfficiencySensor_device_data_list(added_entities[2][i], daily_data) = <<>>
          /\ daily_states[i] = Return(None)

\* what an entry adds to the total of an energy type: the value of its last
\* bucket, and 0 if it is of another type, has no bucket, or its last value
\* is None
Contribution(entry, energy_type) ==
    IF entry.energy_type # Some(energy_type) THEN 0
    ELSE IF Len(entry.data) = 0 THEN 0
    ELSE IF entry.data[Len(entry.data)].value = None THEN 0
    ELSE entry.data[Len(entry.data)].value[1]

\* the total of an energy type over the first n entries of a row
RECURSIVE RowTotal(_, _, _)
RowTotal(row, n, energy_type) ==
    IF n = 0 THEN 0
    ELSE RowTotal(row, n - 1, energy_type) + Contribution(row[n], energy_type)

\* the total of an energy type over the first n rows
RECURSIVE RowsTotal(_, _, _)
RowsTotal(rows, n, energy_type) ==
    IF n = 0 THEN 0
    ELSE RowsTotal(rows, n - 1, energy_type)
         + RowTotal(rows[n], Len(rows[n]), energy_type)

\* the total of an energy type over the scope of an EfficiencySensor: every
\* row of its system without a de_index, the row de_index otherwise
ScopeTotal(s, energy_type) ==
    LET rows == Item(daily_data, s.system_id).devices_data
    IN  IF s.de_index = None
        THEN RowsTotal(rows, Len(rows), energy_type)
        ELSE RowTotal(rows[s.de_index[1] + 1], Len(rows[s.de_index[1] + 1]), energy_type)

\* C12: energy_consumed of an EfficiencySensor is the sum, over the entries in
\* its scope of energy_type CONSUMED_ELECTRICAL_ENERGY, of the last bucket's
\* value (0 for no bucket or a None or zero last value), and
\* heat_energy_generated the same sum for HEAT_GENERATED; entries of other
\* types add to neither
C12_EnergySumsOverScope ==
    Len(added_entities) = 2 =>
      \A i \in EfficiencyStates :
         LET s == added_entities[2][i]
         IN  /\ EfficiencySensor_error(s, daily_data) = ""
             /\ EfficiencySensor_energy_consumed(s, daily_data)
                  = ScopeTotal(s, "CONSUMED_ELECTRICAL_ENERGY")
             /\ EfficiencySensor_heat_energy_generated(s, daily_data)
                  = ScopeTotal(s, "HEAT_GENERATED")

\* C12 witness: after setup a system-level sensor sums consumption over two
\* rows while a device-level sensor of the same system counts one row only,
\* and some sensor has in scope an entry of consumed energy whose last
\* bucket is None after a bucket with a value
C12_Witness ==
    /\ Len(added_entities) = 2
    /\ \E i, j \in EfficiencyStates :
          /\ added_entities[2][i].system_id = added_entities[2][j].system_id
          /\ added_entities[2][i].de_index = None
          /\ added_entities[2][j].de_index # None
          /\ EfficiencySensor_energy_consumed(added_entities[2][i], daily_data) = 2400
          /\ EfficiencySensor_energy_consumed(added_entities[2][j], daily_data) = 1200
          /\ EfficiencySensor_heat_energy_generated(added_entities[2][i], daily_data) = 3000
    /\ daily_states # <<>>

\* C12 witness: a last bucket of None after a bucket with a value adds 0
C12_WitnessLastNone ==
    /\ Len(added_entities) = 2
    /\ \E i \in EfficiencyStates :
          LET list == EfficiencySensor_device_data_list(added_entities[2][i], daily_data)
          IN  /\ \E k \in 1..Len(list) :
                    /\ list[k].energy_type = Some("CONSUMED_ELECTRICAL_ENERGY")
                    /\ list[k].data = <<DeviceDataBucket(Some(1200)), DeviceDataBucket(None)>>
              /\ EfficiencySensor_energy_consumed(added_entities[2][i], daily_data)
                   = 1200 * (Len(list) - 1)

\* the unique id a daily sensor reports on the current data: None, or the id
DailyUniqueId(s) ==
    IF s.cls = "DataSensor"
    THEN DataSensor_unique_id(s, daily_data)
    ELSE Some(EfficiencySensor_unique_id(s, daily_data))

\* every entry has a device, the entries of a row have the same device uuid,
\* and the rows of a system have different ones (system ids, being the keys
\* of a dict, are always distinct)
RowsOnDistinctDevices ==
    /\ NonEmpty(daily_data)
    /\ \A i \in 1..Len(daily_data[1]) :
          LET rows == daily_data[1][i].devices_data
          IN  /\ \A r \in 1..Len(rows) : \A e \in 1..Len(rows[r]) :
                    /\ rows[r][e].device # None
                    /\ rows[r][e].device[1].device_uuid = rows[r][1].device[1].device_uuid
              /\ \A r1, r2 \in 1..Len(rows) :
                    (r1 # r2 /\ Len(rows[r1]) > 0 /\ Len(rows[r2]) > 0)
                    => rows[r1][1].device[1].device_uuid # rows[r2][1].device[1].device_uuid

C13_WitnessTwoRows ==
    /\ Len(added_entities) = 2
    /\ RowsOnDistinctDevices
    /\ \E i \in 1..Len(daily_data[1]) : Len(daily_data[1][i].devices_data) = 2
    /\ \E i, j \in 1..Len(added_entities[2]) :
          /\ added_entities[2][i].cls = "EfficiencySensor"
          /\ added_entities[2][j].cls = "EfficiencySensor"
          /\ added_entities[2][i].de_index = Some(0)
          /\ added_entities[2][j].de_index = Some(1)

\* C13 witness: one row with two entries, so two DataSensors on one device
C13_WitnessTwoEntries ==
    /\ Len(added_entities) = 2
    /\ RowsOnDistinctDevices
    /\ \E i, j \in 1..Len(added_entities[2]) :
          /\ added_entities[2][i].cls = "DataSensor"
          /\ added_entities[2][j].cls = "DataSensor"
          /\ added_entities[2][i].system_id = added_entities[2][j].system_id
          /\ added_entities[2][i].de_index = added_entities[2][j].de_index
          /\ added_entities[2][i].da_index # added_entities[2][j].da_index

====
